---- MODULE Spec2Model ----
(***************************************************************************)
(* Order and inventory consistency engine of the shoppingNow backend:      *)
(* the cart aggregate (controllers/cart.controller.js, models/cart.model), *)
(* the order aggregate (controllers/order.controller.js, order.model.js)   *)
(* and the product stock ledger (models/product.model.js).                 *)
(*                                                                         *)
(* Every request handler is one action.  The persisted collections are the *)
(* variables carts, orders and products; now is the wall clock read by     *)
(* Date.now() / new Date(); res is the response to the last request.       *)
(* tabs holds the cart requests that have read the cart and not yet saved  *)
(* it; saving holds the Product.create calls that are inside the pre-save  *)
(* hooks.  Both stay idle where requests are served one at a time.         *)
(***************************************************************************)
EXTENDS Integers, Sequences, FiniteSets, TLC

VARIABLES carts, orders, products, now, res, tabs, saving

vars == <<carts, orders, products, now, res, tabs, saving>>

(***************************************************************************)
(* Bounds of the model                                                     *)
(***************************************************************************)
MaxQty == 2
MaxOrders == 1
MaxClock == 2
MaxStock == 2
MaxDebt == 2
MaxAttempts == 3
MaxRequests == 2

Users == {"u1", "u2"}
ProductIds == {"p1", "p2"}
\* the browser tabs or devices of one user whose cart requests overlap
Tabs == {"t1", "t2"}

\* a request without a product id (req.body.product undefined)
NoProduct == ""
\* an unset String field (undefined) and an unset Date field
NoString == ""
NoDate == 0

(***************************************************************************)
(* Order model: enums and defaults (models/order.model.js)                 *)
(***************************************************************************)
PAYMENT_STATUS == {"pending", "paid", "failed", "refunded"}

ORDER_STATUS ==
    {"processing", "confirmed", "shipped", "out_for_delivery", "delivered",
     "cancelled", "returned"}

\* orderSchema.methods.canBeCancelled
canBeCancelled_AnyOpen(order) ==
    order.orderStatus \in {"processing", "confirmed", "shipped"}

canBeCancelled(order) ==
    order.orderStatus \in {"processing", "confirmed"}

\* a document built by Order.create: the schema defaults for what the
\* controller does not pass
NewOrder(u, orderNumber, items, totalAmount) ==
    [user |-> u, orderNumber |-> orderNumber, items |-> items,
     totalAmount |-> totalAmount,
     paymentStatus |-> "pending", orderStatus |-> "processing",
     transactionId |-> NoString, paymentGateway |-> NoString,
     paidAt |-> NoDate,
     trackingNumber |-> NoString, estimatedDelivery |-> NoDate,
     cancelReason |-> NoString,
     isDelivered |-> FALSE, deliveredAt |-> NoDate,
     createdAt |-> now]

\* the schema validators run by Order.create on the fields modelled here
OrderValid(order) ==
    /\ Len(order.items) > 0
    /\ \A i \in 1..Len(order.items) :
          /\ order.items[i].quantity >= 1
          /\ order.items[i].unitPrice >= 0
          /\ order.items[i].totalPrice >= 0
    /\ order.totalAmount >= 0

\* orderSchema.pre('save') on an existing document: old is the stored
\* document (isModified compares with it), doc the document being saved
OrderPreSave_Overwrite(old, doc) ==
    LET d1 == IF doc.orderStatus # old.orderStatus /\ doc.orderStatus = "delivered"
              THEN [doc EXCEPT !.isDelivered = TRUE, !.deliveredAt = now]
              ELSE doc
    IN  IF d1.paymentStatus # old.paymentStatus /\ d1.paymentStatus = "paid"
           /\ d1.paidAt = NoDate
        THEN [d1 EXCEPT !.paidAt = now]
        ELSE d1

\* variant: the hook also recomputes totalAmount from the items
OrderPreSave_RecomputeTotal(old, doc) ==
    LET d1 == IF doc.orderStatus # old.orderStatus /\ doc.orderStatus = "delivered"
              THEN [doc EXCEPT !.isDelivered = TRUE,
                               !.deliveredAt = IF doc.deliveredAt = NoDate
                                               THEN now ELSE doc.deliveredAt]
              ELSE doc
        d2 == IF d1.paymentStatus # old.paymentStatus /\ d1.paymentStatus = "paid"
                 /\ d1.paidAt = NoDate
              THEN [d1 EXCEPT !.paidAt = now]
              ELSE d1
    IN  [d2 EXCEPT !.totalAmount = IF Len(d2.items) = 1
                                   THEN d2.items[1].totalPrice
                                   ELSE d2.items[1].totalPrice + d2.items[2].totalPrice]

\* variant: every change to paid stamps paidAt anew
OrderPreSave_RepayStamp(old, doc) ==
    LET d1 == IF doc.orderStatus # old.orderStatus /\ doc.orderStatus = "delivered"
              THEN [doc EXCEPT !.isDelivered = TRUE,
                               !.deliveredAt = IF doc.deliveredAt = NoDate
                                               THEN now ELSE doc.deliveredAt]
              ELSE doc
    IN  IF d1.paymentStatus # old.paymentStatus /\ d1.paymentStatus = "paid"
        THEN [d1 EXCEPT !.paidAt = now]
        ELSE d1

OrderPreSave(old, doc) ==
    LET d1 == IF doc.orderStatus # old.orderStatus /\ doc.orderStatus = "delivered"
              THEN [doc EXCEPT !.isDelivered = TRUE,
                               !.deliveredAt = IF doc.deliveredAt = NoDate
                                               THEN now ELSE doc.deliveredAt]
              ELSE doc
    IN  IF d1.paymentStatus # old.paymentStatus /\ d1.paymentStatus = "paid"
           /\ d1.paidAt = NoDate
        THEN [d1 EXCEPT !.paidAt = now]
        ELSE d1

(***************************************************************************)
(* Cart model (models/cart.model.js)                                       *)
(***************************************************************************)
RECURSIVE SumPrice(_)
SumPrice(items) ==
    IF items = <<>> THEN 0
    ELSE Head(items).quantity * Head(items).priceAtAddTime + SumPrice(Tail(items))

RECURSIVE SumQuantity(_)
SumQuantity(items) ==
    IF items = <<>> THEN 0
    ELSE Head(items).quantity + SumQuantity(Tail(items))

NoCart == [exists |-> FALSE, items |-> <<>>, totalPrice |-> 0, totalItems |-> 0]

\* new Cart({user, items}): totals take the schema defaults
NewCart(items) ==
    [exists |-> TRUE, items |-> items, totalPrice |-> 0, totalItems |-> 0]

\* cartItemSchema validators (quantity min 1, priceAtAddTime min 0)
CartValid(cart) ==
    \A i \in 1..Len(cart.items) :
        /\ cart.items[i].quantity >= 1
        /\ cart.items[i].priceAtAddTime >= 0

\* cartSchema.pre('save')
CartPreSave(cart) ==
    [cart EXCEPT !.totalPrice = SumPrice(cart.items),
                 !.totalItems = SumQuantity(cart.items)]

\* cart.items.findIndex(item => item.product.toString() === productId)
FindIndex(items, productId) ==
    IF \E i \in 1..Len(items) : items[i].product = productId
    THEN CHOOSE i \in 1..Len(items) :
            /\ items[i].product = productId
            /\ \A j \in 1..(i - 1) : items[j].product # productId
    ELSE 0

\* variant: the last line is removed, whatever the index
Splice_Last(items, idx) ==
    [i \in 1..(Len(items) - 1) |-> items[i]]

\* cart.items.splice(itemIndex, 1)
Splice(items, idx) ==
    [i \in 1..(Len(items) - 1) |-> IF i < idx THEN items[i] ELSE items[i + 1]]

(***************************************************************************)
(* Product model (models/product.model.js)                                 *)
(***************************************************************************)
PRODUCT_STATUS == {"ACTIVE", "DRAFT", "OUT_OF_STOCK", "DISCONTINUED"}

\* lowStockThreshold as createProduct and updateProduct pass it
LowStockThreshold == 10

NoProductDoc ==
    [exists |-> FALSE, stock |-> 0, status |-> "DRAFT", isDeleted |-> FALSE,
     sellingPrice |-> 0, sku |-> NoString,
     lowStockThreshold |-> LowStockThreshold]

\* a document built by Product.create: status and sku take the schema
\* defaults (DRAFT, null)
NewProduct(stock, sellingPrice) ==
    [exists |-> TRUE, stock |-> stock, status |-> "DRAFT", isDeleted |-> FALSE,
     sellingPrice |-> sellingPrice, sku |-> NoString,
     lowStockThreshold |-> LowStockThreshold]

\* productSchema.virtual("isInStock")
isInStock(doc) == doc.stock > 0 /\ doc.status # "OUT_OF_STOCK"

\* productSchema.virtual("isLowStock")
isLowStock(doc) == doc.stock <= doc.lowStockThreshold /\ doc.stock > 0

\* productSchema.virtual("stockStatus")
stockStatus(doc) ==
    IF doc.stock <= doc.lowStockThreshold THEN "low-stock"
    ELSE IF doc.stock = 0 \/ doc.status = "OUT_OF_STOCK" THEN "out-of-stock"
    ELSE "in-stock"

\* the values generateRandomSKU() returns here: three letters, four digits,
\* three letters
SkuCandidates == {"AAA-0000-AAA", "ZZZ-9999-ZZZ"}

\* String.prototype.toUpperCase on the strings of the model
toUpperCase(s) ==
    CASE s = "aaa-0000-aaa" -> "AAA-0000-AAA"
      [] s = "zzz-9999-zzz" -> "ZZZ-9999-ZZZ"
      [] OTHER -> s

\* Product.findOne({sku}) found a document: the find hook hides the
\* soft-deleted ones
SkuFound(sku) ==
    \E q \in ProductIds :
        products[q].exists /\ ~products[q].isDeleted /\ products[q].sku = sku

\* the unique index on sku admits the value: no stored document, deleted
\* or not, holds it
SkuIndexFree_NoIndex(sku) == TRUE

SkuIndexFree(sku) ==
    \A q \in ProductIds : products[q].exists => products[q].sku # sku

\* variant: the SKU hook assigns a SKU on every save
SkuHook_Regenerate(doc, candidate) ==
    [doc EXCEPT !.sku = toUpperCase(candidate)]

\* the SKU hook of productSchema.pre("save") around its loop: a document
\* that has a SKU is passed on as it is, another gets the candidate on
\* which the loop exited
SkuHook(doc, candidate) ==
    IF doc.sku # NoString THEN doc
    ELSE [doc EXCEPT !.sku = toUpperCase(candidate)]

\* the candidates on which the loop of the SKU hook can exit for doc; the
\* generator is not called (no candidate) for a document that has a SKU
Draws(doc) ==
    IF doc.sku # NoString THEN {NoString}
    ELSE {c \in SkuCandidates : ~SkuFound(c)}

\* productSchema.pre(/^find/): a query that does not name isDeleted sees
\* only the documents that are not soft-deleted
Visible(p) ==
    /\ p \in ProductIds
    /\ products[p].exists
    /\ ~products[p].isDeleted

\* productSchema.pre("save"), the stock-driven status flip
ProductPreSave(old, doc) ==
    IF doc.stock # old.stock
    THEN IF doc.stock = 0 /\ doc.status = "ACTIVE"
         THEN [doc EXCEPT !.status = "OUT_OF_STOCK"]
         ELSE IF doc.stock > 0 /\ doc.status = "OUT_OF_STOCK"
              THEN [doc EXCEPT !.status = "ACTIVE"]
              ELSE doc
    ELSE doc

\* variant: subtract without the floor at 0
updateStock_NoFloor(doc, quantity, op) ==
    CASE op = "add" -> [doc EXCEPT !.stock = doc.stock + quantity]
      [] op = "subtract" -> [doc EXCEPT !.stock = doc.stock - quantity]
      [] OTHER -> [doc EXCEPT !.stock = IF quantity > 0 THEN quantity ELSE 0]

\* productSchema.methods.updateStock
updateStock(doc, quantity, op) ==
    CASE op = "add" -> [doc EXCEPT !.stock = doc.stock + quantity]
      [] op = "subtract" ->
            [doc EXCEPT !.stock = IF doc.stock - quantity > 0
                                  THEN doc.stock - quantity ELSE 0]
      [] OTHER -> [doc EXCEPT !.stock = IF quantity > 0 THEN quantity ELSE 0]

\* variant: the filter of the updateOne names the _id only
BulkOne_AnyProduct(ps, item) ==
    IF item.id \in ProductIds /\ ps[item.id].exists
    THEN [ps EXCEPT ![item.id].stock = ps[item.id].stock - item.quantity]
    ELSE ps

\* one updateOne of productSchema.statics.bulkUpdateStock applied to the
\* store ps: filter {_id, isDeleted: false}, update {$inc: {stock: -quantity}}
BulkOne(ps, item) ==
    IF item.id \in ProductIds /\ ps[item.id].exists /\ ~ps[item.id].isDeleted
    THEN [ps EXCEPT ![item.id].stock = ps[item.id].stock - item.quantity]
    ELSE ps

\* bulkWrite(ops): the operations are applied in order
RECURSIVE BulkWrite(_, _)
BulkWrite(ps, items) ==
    IF items = <<>> THEN ps
    ELSE BulkWrite(BulkOne(ps, Head(items)), Tail(items))

\* matchedCount of the result of bulkWrite: the updateOnes whose filter
\* found a document, which are those that change the store (the quantities
\* are not 0).  Each sets updatedAt, so modifiedCount is the same.
RECURSIVE MatchedCount(_, _)
MatchedCount(ps, items) ==
    IF items = <<>> THEN 0
    ELSE (IF BulkOne(ps, Head(items)) # ps THEN 1 ELSE 0)
            + MatchedCount(BulkOne(ps, Head(items)), Tail(items))

\* no request of the tab is between its read of the cart and its last
\* write; served counts the requests the tab has sent so far.  items,
\* totalAmount and order are those of a createOrder request: the items it
\* built, the amount it carries, and the position of the order it stored.
IdleTab ==
    [stage |-> "idle", u |-> NoString, op |-> NoString, product |-> NoProduct,
     quantity |-> 0, priceAtAddTime |-> 0, cart |-> NoCart, stale |-> FALSE,
     served |-> 0, items |-> <<>>, totalAmount |-> 0, order |-> 0]

\* no Product.create of the product is inside the pre-save hooks
IdleSave ==
    [stage |-> "idle", doc |-> NoProductDoc, newSKU |-> NoString, attempts |-> 0]

(***************************************************************************)
(* Initial state: empty collections                                        *)
(***************************************************************************)
Init ==
    /\ carts = [u \in Users |-> NoCart]
    /\ orders = <<>>
    /\ products = [p \in ProductIds |-> NoProductDoc]
    /\ now = 1
    /\ res = [op |-> "none", code |-> 0]
    /\ tabs = [t \in Tabs |-> IdleTab]
    /\ saving = [p \in ProductIds |-> IdleSave]

\* time passes between (and during) requests
Tick ==
    /\ now < MaxClock
    /\ now' = now + 1
    /\ UNCHANGED <<carts, orders, products, res, tabs, saving>>

(***************************************************************************)
(* Cart controller (controllers/cart.controller.js)                        *)
(***************************************************************************)
\* cart.save(): the validators run first, then cartSchema.pre('save'); a
\* failed validation stores nothing
CartSave(op, u, cart, okCode, errCode) ==
    IF CartValid(cart)
    THEN /\ carts' = [carts EXCEPT ![u] = CartPreSave(cart)]
         /\ res' = [op |-> op, code |-> okCode]
    ELSE /\ UNCHANGED carts
         /\ res' = [op |-> op, code |-> errCode]

\* variant: a merge also takes the price of the request
AddLine_Reprice(cart, product, quantity, priceAtAddTime) ==
    LET line == [product |-> product, quantity |-> quantity,
                 priceAtAddTime |-> priceAtAddTime]
        idx == FindIndex(cart.items, product)
    IN  IF ~cart.exists THEN NewCart(<<line>>)
        ELSE IF idx # 0
             THEN [cart EXCEPT !.items[idx].quantity = @ + quantity,
                               !.items[idx].priceAtAddTime = priceAtAddTime]
             ELSE [cart EXCEPT !.items = Append(@, line)]

\* the cart addtoCart builds before it saves
AddLine(cart, product, quantity, priceAtAddTime) ==
    LET line == [product |-> product, quantity |-> quantity,
                 priceAtAddTime |-> priceAtAddTime]
        idx == FindIndex(cart.items, product)
    IN  IF ~cart.exists THEN NewCart(<<line>>)
        ELSE IF idx # 0
             THEN [cart EXCEPT !.items[idx].quantity = @ + quantity]
             ELSE [cart EXCEPT !.items = Append(@, line)]

addtoCart(u, product, quantity, priceAtAddTime) ==
    /\ UNCHANGED <<orders, products, now, tabs, saving>>
    /\ IF product = NoProduct \/ priceAtAddTime = 0
       THEN /\ res' = [op |-> "addtoCart", code |-> 400]
            /\ UNCHANGED carts
       ELSE LET cart == AddLine(carts[u], product, quantity, priceAtAddTime)
            IN  /\ \A i \in 1..Len(cart.items) : cart.items[i].quantity <= MaxQty
                /\ CartSave("addtoCart", u, cart, 200, 500)

updateCart(u, productId, quantity) ==
    /\ UNCHANGED <<orders, products, now, tabs, saving>>
    /\ IF quantity < 0
       THEN res' = [op |-> "updateCart", code |-> 400] /\ UNCHANGED carts
       ELSE IF ~carts[u].exists
       THEN res' = [op |-> "updateCart", code |-> 404] /\ UNCHANGED carts
       ELSE LET cart == carts[u]
                itemIndex == FindIndex(cart.items, productId)
            IN  IF itemIndex = 0
                THEN res' = [op |-> "updateCart", code |-> 404] /\ UNCHANGED carts
                ELSE IF quantity = 0
                THEN CartSave("updateCart", u, [cart EXCEPT !.items = Splice(@, itemIndex)],
                              200, 500)
                ELSE CartSave("updateCart", u, [cart EXCEPT !.items[itemIndex].quantity = quantity],
                              200, 500)

removeFromCart(u, productId) ==
    /\ UNCHANGED <<orders, products, now, tabs, saving>>
    /\ IF ~carts[u].exists
       THEN res' = [op |-> "removeFromCart", code |-> 404] /\ UNCHANGED carts
       ELSE LET cart == carts[u]
                itemIndex == FindIndex(cart.items, productId)
            IN  IF itemIndex = 0
                THEN res' = [op |-> "removeFromCart", code |-> 404] /\ UNCHANGED carts
                ELSE CartSave("removeFromCart", u, [cart EXCEPT !.items = Splice(@, itemIndex)],
                              200, 500)

clearCart(u) ==
    /\ UNCHANGED <<orders, products, now, tabs, saving>>
    /\ IF ~carts[u].exists
       THEN res' = [op |-> "clearCart", code |-> 404] /\ UNCHANGED carts
       ELSE CartSave("clearCart", u, [carts[u] EXCEPT !.items = <<>>, !.totalItems = 0,
                                         !.totalPrice = 0], 200, 500)

(***************************************************************************)
(* Cart requests that overlap: a request reads the cart (Cart.findOne),    *)
(* and its cart.save() is a later step.  save() of a loaded document sends *)
(* only what the request changed: $push for a pushed line, $set of         *)
(* items.<i>.quantity for a changed quantity, $set of the whole array for  *)
(* a splice, and $set of each total whose value changed.  A positional or  *)
(* whole-array $set carries the loaded version (__v) in its filter, and a  *)
(* $push or whole-array $set increments the stored version.                *)
(***************************************************************************)
\* the early returns of addtoCart and updateCart, then the read
tabLoad(t, u, op, product, quantity, priceAtAddTime) ==
    /\ tabs[t].stage = "idle"
    /\ tabs[t].served < MaxRequests
    /\ UNCHANGED <<carts, orders, products, now, saving>>
    /\ IF (op = "addtoCart" /\ (product = NoProduct \/ priceAtAddTime = 0))
          \/ (op = "updateCart" /\ quantity < 0)
       THEN /\ res' = [op |-> op, code |-> 400]
            /\ tabs' = [tabs EXCEPT ![t].served = @ + 1]
       ELSE IF op = "updateCart"
               /\ (~carts[u].exists \/ FindIndex(carts[u].items, product) = 0)
       THEN /\ res' = [op |-> op, code |-> 404]
            /\ tabs' = [tabs EXCEPT ![t].served = @ + 1]
       ELSE /\ tabs' = [tabs EXCEPT ![t] =
                   [stage |-> "loaded", u |-> u, op |-> op, product |-> product,
                    quantity |-> quantity, priceAtAddTime |-> priceAtAddTime,
                    cart |-> carts[u], stale |-> FALSE,
                    served |-> tabs[t].served + 1,
                    items |-> <<>>, totalAmount |-> 0, order |-> 0]]
            /\ UNCHANGED res

\* the document the request r has built when it calls save()
TabDoc(r) ==
    IF r.op = "addtoCart"
    THEN AddLine(r.cart, r.product, r.quantity, r.priceAtAddTime)
    ELSE LET itemIndex == FindIndex(r.cart.items, r.product)
         IN  IF r.quantity = 0
             THEN [r.cart EXCEPT !.items = Splice(@, itemIndex)]
             ELSE [r.cart EXCEPT !.items[itemIndex].quantity = r.quantity]

\* what save() sends for the items of r: an insert of the new document, a
\* $push, a $set of one line's quantity, a $set of the array, or nothing
TabWrite(r) ==
    LET idx == FindIndex(r.cart.items, r.product)
    IN  IF ~r.cart.exists THEN "insert"
        ELSE IF r.op = "addtoCart"
        THEN IF idx = 0 THEN "push"
             ELSE IF r.quantity # 0 THEN "setq" ELSE "none"
        ELSE IF r.quantity = 0 THEN "setarray"
             ELSE IF r.cart.items[idx].quantity # r.quantity THEN "setq"
                  ELSE "none"

\* the stored cart after the update save() sends for r, whose document
\* after the pre-save hook is doc
TabApply(stored, r, doc, kind) ==
    LET idx == FindIndex(r.cart.items, r.product)
        items == CASE kind = "push" ->
                        Append(stored.items, doc.items[Len(doc.items)])
                   [] kind = "setq" ->
                        [stored.items EXCEPT ![idx].quantity = doc.items[idx].quantity]
                   [] kind = "setarray" -> doc.items
                   [] OTHER -> stored.items
    IN  [stored EXCEPT
            !.items = items,
            !.totalPrice = IF doc.totalPrice # r.cart.totalPrice
                           THEN doc.totalPrice ELSE @,
            !.totalItems = IF doc.totalItems # r.cart.totalItems
                           THEN doc.totalItems ELSE @]

\* cart.save() of a request that has read the cart, and the response
tabSave(t) ==
    LET r == tabs[t]
        doc == CartPreSave(TabDoc(r))
        kind == TabWrite(r)
    IN  /\ r.stage = "loaded"
        /\ UNCHANGED <<orders, products, now, saving>>
        /\ \A i \in 1..Len(doc.items) : doc.items[i].quantity <= MaxQty
        /\ IF \/ ~CartValid(doc)
              \/ kind = "insert" /\ carts[r.u].exists
              \/ kind \in {"setq", "setarray"} /\ r.stale
           THEN /\ UNCHANGED carts
                /\ res' = [op |-> r.op, code |-> 500]
                /\ tabs' = [tabs EXCEPT ![t] = [IdleTab EXCEPT !.served = r.served]]
           ELSE /\ carts' = [carts EXCEPT ![r.u] =
                       IF kind = "insert" THEN doc
                       ELSE TabApply(carts[r.u], r, doc, kind)]
                /\ res' = [op |-> r.op, code |-> 200]
                /\ tabs' = [s \in Tabs |->
                       IF s = t THEN [IdleTab EXCEPT !.served = r.served]
                       ELSE IF kind \in {"push", "setarray"}
                               /\ tabs[s].stage = "loaded" /\ tabs[s].u = r.u
                            THEN [tabs[s] EXCEPT !.stale = TRUE]
                            ELSE tabs[s]]

(***************************************************************************)
(* Order controller (controllers/order.controller.js)                      *)
(***************************************************************************)
\* cart.items.map(...) over the populated cart: the unit price is the
\* product's selling price
CartOrderItems_PriceAtAdd(items) ==
    [i \in 1..Len(items) |->
        [product |-> items[i].product,
         quantity |-> items[i].quantity,
         unitPrice |-> items[i].priceAtAddTime,
         totalPrice |-> items[i].priceAtAddTime * items[i].quantity]]

CartOrderItems(items) ==
    [i \in 1..Len(items) |->
        [product |-> items[i].product,
         quantity |-> items[i].quantity,
         unitPrice |-> products[items[i].product].sellingPrice,
         totalPrice |-> products[items[i].product].sellingPrice * items[i].quantity]]

\* bodyItems.map(...): the unit price is the one the caller supplies
BodyOrderItems(bodyItems) ==
    [i \in 1..Len(bodyItems) |->
        [product |-> bodyItems[i].product,
         quantity |-> bodyItems[i].quantity,
         unitPrice |-> bodyItems[i].sellingPrice,
         totalPrice |-> bodyItems[i].sellingPrice * bodyItems[i].quantity]]

\* populate("items.product") found every referenced product
Populated(items) ==
    \A i \in 1..Len(items) : Visible(items[i].product)

\* the unique index on orderNumber
OrderNumberFree(orderNumber) ==
    \A i \in 1..Len(orders) : orders[i].orderNumber # orderNumber

\* Cart.findOneAndUpdate({user}, {items: []}): an update of the stored
\* document, which runs no save hook
EmptyCartItems(u) ==
    IF carts[u].exists
    THEN [carts EXCEPT ![u].items = <<>>]
    ELSE carts

\* variant: the cart is emptied before Order.create is known to succeed
PersistOrder_ClearFirst(u, fromCart, items, totalAmount) ==
    LET order == NewOrder(u, now, items, totalAmount)
    IN  /\ carts' = IF fromCart
                    THEN IF carts[u].exists
                         THEN [carts EXCEPT ![u].items = <<>>] ELSE carts
                    ELSE carts
        /\ IF OrderValid(order)
              /\ \A i \in 1..Len(orders) : orders[i].orderNumber # order.orderNumber
           THEN /\ orders' = Append(orders, order)
                /\ res' = [op |-> "createOrder", code |-> 201,
                           id |-> Len(orders) + 1,
                           orderNumber |-> order.orderNumber]
           ELSE /\ UNCHANGED orders
                /\ res' = [op |-> "createOrder", code |-> 500]

\* Order.create with the items built, then the cart update and the 201
PersistOrder(u, fromCart, items, totalAmount) ==
    LET order == NewOrder(u, now, items, totalAmount)
    IN  IF OrderValid(order) /\ OrderNumberFree(order.orderNumber)
        THEN /\ orders' = Append(orders, order)
             /\ carts' = IF fromCart THEN EmptyCartItems(u) ELSE carts
             /\ res' = [op |-> "createOrder", code |-> 201, id |-> Len(orders) + 1,
                        orderNumber |-> order.orderNumber]
        ELSE /\ UNCHANGED <<orders, carts>>
             /\ res' = [op |-> "createOrder", code |-> 500]

\* variant: no check that there is something to order
createOrder_NoEmptyCheck(u, fromCart, bodyItems, totalAmount) ==
    /\ UNCHANGED <<products, now, tabs, saving>>
    /\ IF fromCart
       THEN IF ~carts[u].exists \/ ~Populated(carts[u].items)
            THEN res' = [op |-> "createOrder", code |-> 500]
                 /\ UNCHANGED <<orders, carts>>
            ELSE PersistOrder(u, fromCart, CartOrderItems(carts[u].items),
                              totalAmount)
       ELSE PersistOrder(u, fromCart, BodyOrderItems(bodyItems), totalAmount)

createOrder(u, fromCart, bodyItems, totalAmount) ==
    /\ UNCHANGED <<products, now, tabs, saving>>
    /\ IF fromCart
       THEN IF ~carts[u].exists \/ Len(carts[u].items) = 0
            THEN res' = [op |-> "createOrder", code |-> 400] /\ UNCHANGED <<orders, carts>>
            ELSE IF ~Populated(carts[u].items)
            THEN res' = [op |-> "createOrder", code |-> 500] /\ UNCHANGED <<orders, carts>>
            ELSE PersistOrder(u, fromCart, CartOrderItems(carts[u].items),
                              totalAmount)
       ELSE IF Len(bodyItems) = 0
            THEN res' = [op |-> "createOrder", code |-> 400] /\ UNCHANGED <<orders, carts>>
            ELSE PersistOrder(u, fromCart, BodyOrderItems(bodyItems), totalAmount)

\* createOrder (fromCart) in steps, for requests that overlap and for
\* database calls that fail.  orderLoad is the handler up to the items it
\* builds from the populated cart.
orderLoad(t, u, totalAmount) ==
    /\ tabs[t].stage = "idle"
    /\ tabs[t].served < MaxRequests
    /\ UNCHANGED <<carts, orders, products, now, saving>>
    /\ IF ~carts[u].exists \/ Len(carts[u].items) = 0
       THEN /\ res' = [op |-> "createOrder", code |-> 400]
            /\ tabs' = [tabs EXCEPT ![t].served = @ + 1]
       ELSE IF ~Populated(carts[u].items)
       THEN /\ res' = [op |-> "createOrder", code |-> 500]
            /\ tabs' = [tabs EXCEPT ![t].served = @ + 1]
       ELSE /\ tabs' = [tabs EXCEPT ![t] =
                   [IdleTab EXCEPT !.stage = "loaded", !.u = u,
                                   !.op = "createOrder", !.cart = carts[u],
                                   !.served = tabs[t].served + 1,
                                   !.items = CartOrderItems(carts[u].items),
                                   !.totalAmount = totalAmount]]
            /\ UNCHANGED res

\* the order number from Date.now() and Order.create.  A request that has
\* read the cart and not yet stored its order is marked stale when another
\* request of the same user stores an order.
orderPersist(t) ==
    LET r == tabs[t]
        order == NewOrder(r.u, now, r.items, r.totalAmount)
    IN  /\ r.stage = "loaded" /\ r.op = "createOrder"
        /\ UNCHANGED <<carts, products, now, saving>>
        /\ IF OrderValid(order) /\ OrderNumberFree(order.orderNumber)
           THEN /\ orders' = Append(orders, order)
                /\ tabs' = [s \in Tabs |->
                       IF s = t
                       THEN [r EXCEPT !.stage = "persisted",
                                      !.order = Len(orders) + 1]
                       ELSE IF tabs[s].stage = "loaded"
                               /\ tabs[s].op = "createOrder"
                               /\ tabs[s].u = r.u
                            THEN [tabs[s] EXCEPT !.stale = TRUE]
                            ELSE tabs[s]]
                /\ UNCHANGED res
           ELSE /\ UNCHANGED orders
                /\ tabs' = [tabs EXCEPT ![t] = [IdleTab EXCEPT !.served = r.served]]
                /\ res' = [op |-> "createOrder", code |-> 500]

\* Cart.findOneAndUpdate({user}, {items: []}) and the response: the update
\* is applied and the request answers 201, or the call is rejected by the
\* database (ok = FALSE) and the catch answers 500
orderClear(t, ok) ==
    LET r == tabs[t]
    IN  /\ r.stage = "persisted"
        /\ UNCHANGED <<orders, products, now, saving>>
        /\ tabs' = [tabs EXCEPT ![t] = [IdleTab EXCEPT !.served = r.served]]
        /\ IF ok
           THEN /\ carts' = EmptyCartItems(r.u)
                /\ res' = [op |-> "createOrder", code |-> 201, id |-> r.order,
                           orderNumber |-> orders[r.order].orderNumber]
           ELSE /\ UNCHANGED carts
                /\ res' = [op |-> "createOrder", code |-> 500]

\* order.save() of a loaded and changed document
OrderSave(id, doc) ==
    orders' = [orders EXCEPT ![id] = OrderPreSave(orders[id], doc)]

\* variant: the tracking number of the request is stored also when the
\* request has none
updateOrderStatus_ClearOmitted(id, status, trackingNumber, estimatedDelivery) ==
    /\ UNCHANGED <<carts, products, now, tabs, saving>>
    /\ IF status \notin ORDER_STATUS
       THEN res' = [op |-> "updateOrderStatus", code |-> 400] /\ UNCHANGED orders
       ELSE IF id \notin 1..Len(orders)
       THEN res' = [op |-> "updateOrderStatus", code |-> 404] /\ UNCHANGED orders
       ELSE LET d1 == [orders[id] EXCEPT !.orderStatus = status,
                                         !.trackingNumber = trackingNumber]
                d3 == IF estimatedDelivery # NoDate
                      THEN [d1 EXCEPT !.estimatedDelivery = estimatedDelivery]
                      ELSE d1
            IN  /\ OrderSave(id, d3)
                /\ res' = [op |-> "updateOrderStatus", code |-> 200]

updateOrderStatus(id, status, trackingNumber, estimatedDelivery) ==
    /\ UNCHANGED <<carts, products, now, tabs, saving>>
    /\ IF status \notin ORDER_STATUS
       THEN res' = [op |-> "updateOrderStatus", code |-> 400] /\ UNCHANGED orders
       ELSE IF id \notin 1..Len(orders)
       THEN res' = [op |-> "updateOrderStatus", code |-> 404] /\ UNCHANGED orders
       ELSE LET d1 == [orders[id] EXCEPT !.orderStatus = status]
                d2 == IF trackingNumber # NoString
                      THEN [d1 EXCEPT !.trackingNumber = trackingNumber] ELSE d1
                d3 == IF estimatedDelivery # NoDate
                      THEN [d2 EXCEPT !.estimatedDelivery = estimatedDelivery]
                      ELSE d2
            IN  /\ OrderSave(id, d3)
                /\ res' = [op |-> "updateOrderStatus", code |-> 200]

\* Order.findOne({_id: id, user}), read only
getOrderById(u, id) ==
    /\ UNCHANGED <<carts, orders, products, now, tabs, saving>>
    /\ IF id \notin 1..Len(orders) \/ orders[id].user # u
       THEN res' = [op |-> "getOrderById", code |-> 404]
       ELSE res' = [op |-> "getOrderById", code |-> 200]

\* variant: the order is looked up by its id alone
cancelOrder_AnyUser(u, orderId, cancelReason) ==
    /\ UNCHANGED <<carts, products, now, tabs, saving>>
    /\ IF orderId \notin 1..Len(orders)
       THEN res' = [op |-> "cancelOrder", code |-> 404] /\ UNCHANGED orders
       ELSE IF ~canBeCancelled(orders[orderId])
       THEN res' = [op |-> "cancelOrder", code |-> 400] /\ UNCHANGED orders
       ELSE /\ OrderSave(orderId, [orders[orderId] EXCEPT
                                       !.orderStatus = "cancelled",
                                       !.cancelReason = cancelReason])
            /\ res' = [op |-> "cancelOrder", code |-> 200]

cancelOrder(u, orderId, cancelReason) ==
    /\ UNCHANGED <<carts, products, now, tabs, saving>>
    /\ IF orderId \notin 1..Len(orders) \/ orders[orderId].user # u
       THEN res' = [op |-> "cancelOrder", code |-> 404] /\ UNCHANGED orders
       ELSE IF ~canBeCancelled(orders[orderId])
       THEN res' = [op |-> "cancelOrder", code |-> 400] /\ UNCHANGED orders
       ELSE /\ OrderSave(orderId, [orders[orderId] EXCEPT
                                       !.orderStatus = "cancelled",
                                       !.cancelReason = cancelReason])
            /\ res' = [op |-> "cancelOrder", code |-> 200]

updatePaymentStatus(id, status, transactionId, paymentGateway) ==
    /\ UNCHANGED <<carts, products, now, tabs, saving>>
    /\ IF status \notin PAYMENT_STATUS
       THEN res' = [op |-> "updatePaymentStatus", code |-> 400] /\ UNCHANGED orders
       ELSE IF id \notin 1..Len(orders)
       THEN res' = [op |-> "updatePaymentStatus", code |-> 404] /\ UNCHANGED orders
       ELSE LET d1 == [orders[id] EXCEPT !.paymentStatus = status]
                d2 == IF transactionId # NoString
                      THEN [d1 EXCEPT !.transactionId = transactionId] ELSE d1
                d3 == IF paymentGateway # NoString
                      THEN [d2 EXCEPT !.paymentGateway = paymentGateway] ELSE d2
            IN  /\ OrderSave(id, d3)
                /\ res' = [op |-> "updatePaymentStatus", code |-> 200]

\* { $match: { createdAt: { $gte: startDate } } } with startDate = the
\* current time minus days
Matched(days) ==
    {i \in 1..Len(orders) : orders[i].createdAt >= now - days}

RECURSIVE SumAmount(_)
SumAmount(ids) ==
    IF ids = {} THEN 0
    ELSE LET i == CHOOSE j \in ids : TRUE
         IN  orders[i].totalAmount + SumAmount(ids \ {i})

\* the $group stage with _id: null: one document when some order matched,
\* none otherwise.  $avg is the quotient; the amounts of the orders placed
\* here are equal, so that it is a whole number.
AnalyticsGroup(ids) ==
    IF ids = {} THEN <<>>
    ELSE <<[totalOrders |-> Cardinality(ids),
            totalRevenue |-> SumAmount(ids),
            avgOrderValue |-> SumAmount(ids) \div Cardinality(ids),
            cancelledOrders |->
                Cardinality({i \in ids : orders[i].orderStatus = "cancelled"}),
            deliveredOrders |->
                Cardinality({i \in ids : orders[i].orderStatus = "delivered"})]>>

\* the $group stage with _id: '$orderStatus'
StatusBreakdown(ids) ==
    {[id |-> st, count |-> Cardinality({i \in ids : orders[i].orderStatus = st})] :
        st \in {orders[i].orderStatus : i \in ids}}

\* an object without fields: {}
EmptyObject == [f \in {} |-> 0]

getOrderAnalytics(days) ==
    /\ UNCHANGED <<carts, orders, products, now, tabs, saving>>
    /\ LET analytics == AnalyticsGroup(Matched(days))
       IN  res' = [op |-> "getOrderAnalytics", code |-> 200,
                   summary |-> IF Len(analytics) > 0 THEN analytics[1]
                               ELSE EmptyObject,
                   statusBreakdown |-> StatusBreakdown(Matched(days))]

(***************************************************************************)
(* Product controller and the stock ledger's write paths                   *)
(***************************************************************************)
\* the insert that ends Product.create: the unique index on sku refuses a
\* duplicate (E11000, answered as 500)
InsertProduct(p, doc) ==
    IF SkuIndexFree(doc.sku)
    THEN /\ products' = [products EXCEPT ![p] = doc]
         /\ res' = [op |-> "createProduct", code |-> 201]
    ELSE /\ UNCHANGED products
         /\ res' = [op |-> "createProduct", code |-> 500]

\* createProduct served alone: Product.create runs the pre-save hooks, and
\* newSKU is the candidate on which the SKU loop exits (the candidates
\* drawn before it were found in the store)
createProduct(p, stock, sellingPrice, newSKU) ==
    /\ ~products[p].exists
    /\ saving[p].stage = "idle"
    /\ UNCHANGED <<carts, orders, now, tabs, saving>>
    /\ IF sellingPrice < 0 \/ stock < 0
       THEN res' = [op |-> "createProduct", code |-> 400] /\ UNCHANGED products
       ELSE /\ ~SkuFound(newSKU)
            /\ InsertProduct(p, [NewProduct(stock, sellingPrice) EXCEPT
                                     !.sku = toUpperCase(newSKU)])

\* createProduct in steps, for requests that overlap.  saveBegin is the
\* handler up to Product.create and the hooks before the SKU loop.
saveBegin(p, stock, sellingPrice) ==
    /\ ~products[p].exists
    /\ saving[p].stage = "idle"
    /\ UNCHANGED <<carts, orders, products, now, tabs>>
    /\ IF sellingPrice < 0 \/ stock < 0
       THEN res' = [op |-> "createProduct", code |-> 400] /\ UNCHANGED saving
       ELSE /\ saving' = [saving EXCEPT ![p] =
                   [stage |-> "sku", doc |-> NewProduct(stock, sellingPrice),
                    newSKU |-> NoString, attempts |-> 0]]
            /\ UNCHANGED res

\* one turn of the while loop of the SKU hook: generateRandomSKU() returns
\* candidate, findOne looks it up, and the loop exits when it is not found.
\* The code has no limit on the turns; the model follows MaxAttempts turns.
skuLoop(p, candidate) ==
    /\ saving[p].stage = "sku"
    /\ saving[p].attempts < MaxAttempts
    /\ UNCHANGED <<carts, orders, products, now, res, tabs>>
    /\ saving' = [saving EXCEPT ![p] =
          IF SkuFound(candidate)
          THEN [@ EXCEPT !.newSKU = candidate, !.attempts = @ + 1]
          ELSE [@ EXCEPT !.newSKU = candidate, !.attempts = @ + 1,
                         !.stage = "insert",
                         !.doc.sku = toUpperCase(candidate)]]

\* the insert of the document the hooks have passed, and the response
saveInsert(p) ==
    /\ saving[p].stage = "insert"
    /\ UNCHANGED <<carts, orders, now, tabs>>
    /\ InsertProduct(p, saving[p].doc)
    /\ saving' = [saving EXCEPT ![p] = IdleSave]

\* getProductById: the document with its virtuals (toJSON: virtuals)
getProductById(p) ==
    /\ UNCHANGED <<carts, orders, products, now, tabs, saving>>
    /\ IF ~Visible(p)
       THEN res' = [op |-> "getProductById", code |-> 404]
       ELSE res' = [op |-> "getProductById", code |-> 200,
                    isInStock |-> isInStock(products[p]),
                    isLowStock |-> isLowStock(products[p]),
                    stockStatus |-> stockStatus(products[p])]

\* updateProduct: Product.findByIdAndUpdate(id, updateData), no save hook
updateProduct(p, stock, sellingPrice) ==
    /\ UNCHANGED <<carts, orders, now, tabs, saving>>
    /\ IF sellingPrice < 0 \/ stock < 0
       THEN res' = [op |-> "updateProduct", code |-> 400] /\ UNCHANGED products
       ELSE IF ~Visible(p)
       THEN res' = [op |-> "updateProduct", code |-> 404] /\ UNCHANGED products
       ELSE /\ products' = [products EXCEPT ![p].stock = stock,
                                            ![p].sellingPrice = sellingPrice,
                                            ![p].lowStockThreshold = LowStockThreshold]
            /\ res' = [op |-> "updateProduct", code |-> 200]

\* product.save(): the validators of the modified paths (stock min 0), then
\* the two pre-save hooks
ProductSave(op, p, doc) ==
    IF doc.stock = products[p].stock \/ doc.stock >= 0
    THEN /\ \E c \in Draws(doc) :
               products' = [products EXCEPT ![p] =
                               SkuHook(ProductPreSave(products[p], doc), c)]
         /\ res' = [op |-> op, code |-> 200]
    ELSE /\ UNCHANGED products
         /\ res' = [op |-> op, code |-> 500]

\* a product loaded by id, changed by updateStock(quantity, op) and saved
adjustStock(p, quantity, op) ==
    /\ Visible(p)
    /\ UNCHANGED <<carts, orders, now, tabs, saving>>
    /\ updateStock(products[p], quantity, op).stock <= MaxStock
    /\ ProductSave("updateStock", p, updateStock(products[p], quantity, op))

\* Product.bulkUpdateStock(items)
bulkUpdateStock(items) ==
    /\ UNCHANGED <<carts, orders, now, tabs, saving>>
    /\ \A p \in ProductIds : BulkWrite(products, items)[p].stock >= -MaxDebt
    /\ products' = BulkWrite(products, items)
    /\ res' = [op |-> "bulkUpdateStock", code |-> 200,
               matchedCount |-> MatchedCount(products, items),
               modifiedCount |-> MatchedCount(products, items)]

\* productSchema.methods.softDelete
softDelete(p) ==
    /\ products[p].exists
    /\ UNCHANGED <<carts, orders, now, tabs, saving>>
    /\ ProductSave("softDelete", p, [products[p] EXCEPT !.isDeleted = TRUE,
                                          !.status = "DISCONTINUED"])

\* variant: restore makes the product ACTIVE whatever its stock
restore_Reactivate(p) ==
    /\ products[p].exists
    /\ UNCHANGED <<carts, orders, now, tabs, saving>>
    /\ ProductSave("restore", p, [products[p] EXCEPT
            !.isDeleted = FALSE, !.status = "ACTIVE"])

\* productSchema.methods.restore
restore(p) ==
    /\ products[p].exists
    /\ UNCHANGED <<carts, orders, now, tabs, saving>>
    /\ ProductSave("restore", p, [products[p] EXCEPT
            !.isDeleted = FALSE,
            !.status = IF products[p].stock > 0 THEN "ACTIVE" ELSE "OUT_OF_STOCK"])

(***************************************************************************)
(* Request inputs                                                          *)
(***************************************************************************)
Quantities == -1..MaxQty
\* priceAtAddTime of an addtoCart request at checkout: negative, zero, valid
AddPrices == {-1, 0, 2}
SellingPrices == {1, 2}
TotalAmounts == {-1, 5}
Shoppers == {"u1"}
\* the SKU the generator hands to a product where its draws are not at issue
FirstDraw(p) == IF p = "p1" THEN "AAA-0000-AAA" ELSE "ZZZ-9999-ZZZ"

\* req.body.items of a createOrder with fromCart = false
BodyItemLists ==
    {<<>>,
     <<[product |-> "p1", quantity |-> 1, sellingPrice |-> 1]>>,
     <<[product |-> "p1", quantity |-> 0, sellingPrice |-> 1]>>,
     <<[product |-> "p1", quantity |-> 2, sellingPrice |-> 1],
       [product |-> "p2", quantity |-> 1, sellingPrice |-> 2]>>}

(***************************************************************************)
(* Checkout: one shopper's cart, the catalogue prices and order placement  *)
(***************************************************************************)
Next ==
    \/ \E u \in Shoppers, p \in ProductIds \cup {NoProduct},
          q \in Quantities, pr \in AddPrices : addtoCart(u, p, q, pr)
    \/ \E u \in Shoppers, p \in ProductIds, q \in Quantities : updateCart(u, p, q)
    \/ \E u \in Shoppers, p \in ProductIds : removeFromCart(u, p)
    \/ \E u \in Shoppers : clearCart(u)
    \/ /\ Len(orders) < MaxOrders
       /\ \E u \in Shoppers, a \in TotalAmounts : createOrder(u, TRUE, <<>>, a)
    \/ /\ Len(orders) < MaxOrders
       /\ \E u \in Shoppers, b \in BodyItemLists, a \in TotalAmounts :
             createOrder(u, FALSE, b, a)
    \/ \E p \in ProductIds, pr \in SellingPrices :
          createProduct(p, MaxStock, pr, FirstDraw(p))
    \/ \E p \in ProductIds, pr \in SellingPrices : updateProduct(p, MaxStock, pr)
    \/ Tick

Spec == Init /\ [][Next]_vars

(***************************************************************************)
(* Properties of the cart and of order placement                           *)
(***************************************************************************)
\* the totals a cart's lines add up to
TotalsMatch(cart) ==
    /\ cart.totalItems = SumQuantity(cart.items)
    /\ cart.totalPrice = SumPrice(cart.items)

\* the step persisted a new order
OrderPersisted == Len(orders') = Len(orders) + 1

NewestOrder == orders[Len(orders)]

\* C1: every persisted cart has totalItems = the sum of its lines'
\* quantities and totalPrice = the sum of quantity x priceAtAddTime, after
\* any cart mutation and after a checkout that emptied the lines.
C1_CartTotalsMatchLines ==
    \A u \in Users : carts[u].exists => TotalsMatch(carts[u])

\* C3: whenever createOrder answers 201, the stock of every product of the
\* new order's items has gone down by the item's quantity.
C3_OrderDecrementsStock ==
    [][(OrderPersisted /\ res'.op = "createOrder" /\ res'.code = 201) =>
          LET items == orders'[Len(orders')].items
          IN  \A i \in 1..Len(items) :
                 Visible(items[i].product) =>
                    products'[items[i].product].stock
                       = products[items[i].product].stock - items[i].quantity]_vars

\* C7: an order placed from the cart has one item per cart line, with the
\* line's product and quantity, the product's selling price at order time
\* as unitPrice, and totalPrice = unitPrice x quantity.
C7_SnapshotUsesSellingPrice ==
    [][\A u \in Users, a \in TotalAmounts :
          (OrderPersisted /\ createOrder(u, TRUE, <<>>, a)) =>
             LET items == orders'[Len(orders')].items
                 lines == carts[u].items
             IN  /\ Len(items) = Len(lines)
                 /\ \A i \in 1..Len(lines) :
                       /\ items[i].product = lines[i].product
                       /\ items[i].quantity = lines[i].quantity
                       /\ items[i].unitPrice = products[lines[i].product].sellingPrice
                       /\ items[i].totalPrice
                             = products[lines[i].product].sellingPrice
                                  * lines[i].quantity]_vars

\* an order of two items placed from the cart at a selling price other than
\* the price at add time: the emptied cart still carries the old totals
C7_Witness ==
    /\ res.op = "createOrder" /\ res.code = 201
    /\ Len(orders) >= 1
    /\ Len(NewestOrder.items) = 2
    /\ LET cart == carts[NewestOrder.user]
       IN  /\ cart.exists /\ cart.items = <<>>
           /\ cart.totalItems = NewestOrder.items[1].quantity
                                   + NewestOrder.items[2].quantity
           /\ cart.totalPrice # NewestOrder.items[1].totalPrice
                                   + NewestOrder.items[2].totalPrice

C9_EmptyCheckoutRejected ==
    [][res'.op = "createOrder" =>
       /\ \A u \in Users, a \in TotalAmounts :
             (createOrder(u, TRUE, <<>>, a)
                /\ (~carts[u].exists \/ carts[u].items = <<>>)) =>
                   /\ res'.code = 400
                   /\ UNCHANGED <<orders, carts>>
       /\ \A u \in Users, a \in TotalAmounts :
             createOrder(u, FALSE, <<>>, a) =>
                   /\ res'.code = 400
                   /\ UNCHANGED <<orders, carts>>
       /\ \A i \in 1..Len(orders') : Len(orders'[i].items) >= 1]_vars

\* a checkout was refused for a cart that exists and has no lines
C9_Witness ==
    /\ res.op = "createOrder" /\ res.code = 400
    /\ \E u \in Users : carts[u].exists /\ carts[u].items = <<>>
    /\ orders = <<>>

(***************************************************************************)
(* The stock ledger: every write path of a product's stock                 *)
(***************************************************************************)
StockOps == {"add", "subtract", "set"}

\* the items of a bulkUpdateStock call: one product, or both in one call
DecrementLists ==
    {<<[id |-> p, quantity |-> q]>> : p \in ProductIds, q \in 1..MaxQty}
    \cup {<<[id |-> "p1", quantity |-> q1], [id |-> "p2", quantity |-> q2]>> :
            q1 \in 1..MaxQty, q2 \in 1..MaxQty}

NextStock ==
    \/ \E p \in ProductIds, st \in -1..MaxStock :
          createProduct(p, st, 1, FirstDraw(p))
    \/ \E p \in ProductIds, st \in 0..MaxStock : updateProduct(p, st, 1)
    \/ \E p \in ProductIds, q \in Quantities, op \in StockOps :
          adjustStock(p, q, op)
    \/ \E items \in DecrementLists : bulkUpdateStock(items)
    \/ \E p \in ProductIds : softDelete(p)
    \/ \E p \in ProductIds : restore(p)
    \/ \E p \in ProductIds : getProductById(p)

SpecStock == Init /\ [][NextStock]_vars

\* C2: no product's stock is ever negative, whatever decrements are applied
\* (bulkUpdateStock for one or more orders, updateStock 'subtract') and in
\* whatever order, also when they ask for more than is on hand.
C2_StockNeverNegative ==
    \A p \in ProductIds : products[p].exists => products[p].stock >= 0

\* C11: whenever a step changes a product's stock (a saved updateStock,
\* bulkUpdateStock or updateProduct), the same step applies the status rule:
\* ACTIVE with resulting stock 0 becomes OUT_OF_STOCK, OUT_OF_STOCK with
\* resulting stock > 0 becomes ACTIVE, and DRAFT and DISCONTINUED stay.
C11_StatusFollowsStock ==
    [][\A p \in ProductIds :
          (products[p].exists /\ products'[p].exists
             /\ products'[p].stock # products[p].stock) =>
                products'[p].status =
                   IF products'[p].stock = 0 /\ products[p].status = "ACTIVE"
                   THEN "OUT_OF_STOCK"
                   ELSE IF products'[p].stock > 0
                           /\ products[p].status = "OUT_OF_STOCK"
                        THEN "ACTIVE"
                        ELSE products[p].status]_vars

\* C12: every product whose status is ACTIVE or OUT_OF_STOCK is OUT_OF_STOCK
\* exactly when its stock is 0.
C12_OutOfStockIffEmpty ==
    \A p \in ProductIds :
        (products[p].exists /\ products[p].status \in {"ACTIVE", "OUT_OF_STOCK"}) =>
            (products[p].status = "OUT_OF_STOCK" <=> products[p].stock = 0)

\* C21: a product gets its SKU in the step that stores it, and every later
\* step (a saved stock change, softDelete, restore, updateProduct,
\* bulkUpdateStock) leaves the SKU of a stored product as it is.
C21_SkuAssignedOnce ==
    [][\A p \in ProductIds :
          /\ (~products[p].exists /\ products'[p].exists) =>
                products'[p].sku \in SkuCandidates
          /\ products[p].exists =>
                /\ products'[p].exists
                /\ products'[p].sku = products[p].sku]_vars

\* a product that was sold out and soft-deleted has just been restored, and
\* it still carries the SKU of its creation
C21_Witness ==
    /\ res.op = "restore" /\ res.code = 200
    /\ \E p \in ProductIds :
          /\ products[p].exists /\ ~products[p].isDeleted
          /\ products[p].stock = 0 /\ products[p].status = "OUT_OF_STOCK"
          /\ products[p].sku = FirstDraw(p)

RECURSIVE Asked(_, _)
Asked(items, p) ==
    IF items = <<>> THEN 0
    ELSE (IF Head(items).id = p THEN Head(items).quantity ELSE 0)
            + Asked(Tail(items), p)

\* C24: bulkUpdateStock takes each item's quantity off the stock of its
\* product when the product is stored and not soft-deleted, leaves the
\* stock of soft-deleted products and of products not listed as it is, and
\* returns matched and modified counts equal to the number of items that
\* were applied, so lower than the number of items when one was skipped.
C24_BulkSkipsDeleted ==
    [][res'.op = "bulkUpdateStock" =>
          \A items \in DecrementLists :
             bulkUpdateStock(items) =>
                LET applied == {i \in 1..Len(items) : Visible(items[i].id)}
                IN  /\ \A p \in ProductIds :
                          products'[p] =
                             IF Visible(p)
                             THEN [products[p] EXCEPT
                                      !.stock = @ - Asked(items, p)]
                             ELSE products[p]
                    /\ res'.matchedCount = Cardinality(applied)
                    /\ res'.modifiedCount = Cardinality(applied)
                    /\ Cardinality(applied) < Len(items) =>
                          res'.matchedCount < Len(items)]_vars

\* a bulkUpdateStock has emptied the stock of one product and matched one
\* item, while the other product is soft-deleted with its stock untouched
C24_Witness ==
    /\ res.op = "bulkUpdateStock" /\ res.matchedCount = 1
    /\ \E p, q \in ProductIds :
          /\ products[p].exists /\ ~products[p].isDeleted
          /\ products[p].stock = 0
          /\ products[q].exists /\ products[q].isDeleted
          /\ products[q].stock = MaxStock

\* the quantities handed to updateStock: below zero, zero, and beyond any
\* stock on hand
StockQuantities == (-MaxQty)..(MaxStock + MaxQty)

\* C27: for every stored product and every quantity, updateStock with
\* 'subtract' gives stock = max(0, stock - quantity), updateStock with the
\* default operation gives stock = max(0, quantity), neither of them below
\* 0, and updateStock with 'add' gives stock + quantity; no other field of
\* the document changes.
C27_UpdateStockClamps ==
    \A p \in ProductIds :
        products[p].exists =>
            \A q \in StockQuantities :
                LET doc == products[p]
                    sub == updateStock(doc, q, "subtract")
                    set == updateStock(doc, q, "set")
                    add == updateStock(doc, q, "add")
                IN  /\ sub = [doc EXCEPT !.stock = IF doc.stock - q > 0
                                                   THEN doc.stock - q ELSE 0]
                    /\ set = [doc EXCEPT !.stock = IF q > 0 THEN q ELSE 0]
                    /\ sub.stock >= 0 /\ set.stock >= 0
                    /\ add = [doc EXCEPT !.stock = doc.stock + q]

\* a product whose stock bulkUpdateStock had taken below 0 has just been
\* saved after updateStock, and the other product's stock is still below 0
C27_Witness ==
    /\ res.op = "updateStock" /\ res.code = 200
    /\ \E p, q \in ProductIds :
          /\ products[p].exists /\ products[p].stock = 0
          /\ products[q].exists /\ products[q].stock < 0

\* the thresholds a stored product can carry (the schema asks min 0)
Thresholds == 0..MaxStock

\* C30: for every stored product and every lowStockThreshold, isLowStock
\* is 0 < stock <= lowStockThreshold, and stockStatus is 'out-of-stock'
\* when stock = 0 or the status is OUT_OF_STOCK, 'low-stock' when the
\* product is not out of stock and isLowStock holds, and 'in-stock'
\* otherwise; a getProductById response carries these values.
C30_DerivedFieldsAgree ==
    /\ \A p \in ProductIds :
          products[p].exists =>
             \A th \in Thresholds :
                LET doc == [products[p] EXCEPT !.lowStockThreshold = th]
                    out == doc.stock = 0 \/ doc.status = "OUT_OF_STOCK"
                IN  /\ isLowStock(doc) = (0 < doc.stock /\ doc.stock <= th)
                    /\ stockStatus(doc) =
                          IF out THEN "out-of-stock"
                          ELSE IF isLowStock(doc) THEN "low-stock"
                          ELSE "in-stock"
    /\ (res.op = "getProductById" /\ res.code = 200) =>
          /\ res.stockStatus = "low-stock" => res.isLowStock
          /\ res.stockStatus = "in-stock" => res.isInStock

(***************************************************************************)
(* The order status lifecycle                                              *)
(***************************************************************************)
OrderIds == 1..(MaxOrders + 1)
StatusInputs == ORDER_STATUS \cup {"lost"}
Reasons == {"changed my mind"}
ExplicitItems == <<[product |-> "p1", quantity |-> 1, sellingPrice |-> 1]>>

NextOrders ==
    \/ /\ Len(orders) < MaxOrders
       /\ \E u \in Users : createOrder(u, FALSE, ExplicitItems, 5)
    \/ \E id \in OrderIds, st \in StatusInputs :
          updateOrderStatus(id, st, NoString, NoDate)
    \/ \E u \in Users, id \in OrderIds, r \in Reasons : cancelOrder(u, id, r)
    \/ Tick

SpecOrders == Init /\ [][NextOrders]_vars

\* C4: cancelOrder by the order's owner succeeds exactly when orderStatus
\* is processing or confirmed, and then sets orderStatus = cancelled and
\* cancelReason; in every other status it answers 400 and changes nothing.
C4_CancelOnlyWhileOpen ==
    [][res'.op = "cancelOrder" =>
          \A u \in Users, id \in 1..Len(orders), r \in Reasons :
             (cancelOrder(u, id, r) /\ orders[id].user = u) =>
                IF orders[id].orderStatus \in {"processing", "confirmed"}
                THEN /\ res'.code = 200
                     /\ orders' = [orders EXCEPT ![id].orderStatus = "cancelled",
                                                 ![id].cancelReason = r]
                ELSE /\ res'.code = 400
                     /\ orders' = orders]_vars

\* an order was cancelled with its reason recorded, later shipped all the
\* same, and a second cancellation of it has just been refused
C4_Witness ==
    /\ res.op = "cancelOrder" /\ res.code = 400
    /\ \E i \in 1..Len(orders) :
          /\ orders[i].orderStatus = "shipped"
          /\ orders[i].cancelReason # NoString

\* the position of a status on the delivery chain, 0 for the side exits
ChainRank(st) ==
    CASE st = "processing" -> 1
      [] st = "confirmed" -> 2
      [] st = "shipped" -> 3
      [] st = "out_for_delivery" -> 4
      [] st = "delivered" -> 5
      [] OTHER -> 0

\* C5: orderStatus starts at processing and then never moves backward along
\* processing -> confirmed -> shipped -> out_for_delivery -> delivered and
\* never leaves cancelled to re-enter that chain.
C5_StatusNeverGoesBack ==
    [][/\ \A i \in 1..Len(orders) :
             LET old == orders[i].orderStatus
                 new == orders'[i].orderStatus
             IN  /\ (ChainRank(old) > 0 /\ ChainRank(new) > 0) =>
                       ChainRank(new) >= ChainRank(old)
                 /\ old = "cancelled" => ChainRank(new) = 0
       /\ \A i \in (Len(orders) + 1)..Len(orders') :
             orders'[i].orderStatus = "processing"]_vars

\* C6: when orderStatus becomes delivered, isDelivered is true and
\* deliveredAt is set, to the time of the first delivery; once set,
\* deliveredAt never changes, whatever updateOrderStatus calls follow.
C6_DeliveredAtSetOnce ==
    [][\A i \in 1..Len(orders) :
          /\ (orders[i].orderStatus # "delivered"
                /\ orders'[i].orderStatus = "delivered") =>
                   /\ orders'[i].isDelivered
                   /\ orders'[i].deliveredAt # NoDate
                   /\ orders[i].deliveredAt = NoDate => orders'[i].deliveredAt = now
          /\ orders[i].deliveredAt # NoDate =>
                orders'[i].deliveredAt = orders[i].deliveredAt
          /\ orders[i].isDelivered => orders'[i].isDelivered]_vars

\* an order delivered earlier has since been moved away from delivered and
\* still carries the time of that delivery
C6_Witness ==
    /\ res.op = "updateOrderStatus" /\ res.code = 200
    /\ Len(orders) = 1
    /\ orders[1].orderStatus # "delivered"
    /\ orders[1].isDelivered
    /\ orders[1].deliveredAt # NoDate
    /\ orders[1].deliveredAt < now

(***************************************************************************)
(* Everything that can happen after an order is placed                     *)
(***************************************************************************)
NextFrame ==
    \/ \E p \in ProductIds : addtoCart("u1", p, MaxQty, 2)
    \/ updateCart("u1", "p1", 1)
    \/ removeFromCart("u1", "p2")
    \/ clearCart("u1")
    \/ /\ Len(orders) < MaxOrders
       /\ createOrder("u1", TRUE, <<>>, 5)
    \/ \E p \in ProductIds : createProduct(p, MaxStock, 1, FirstDraw(p))
    \/ \E pr \in SellingPrices : updateProduct("p1", MaxStock, pr)
    \/ adjustStock("p1", MaxStock, "subtract")
    \/ bulkUpdateStock(<<[id |-> "p1", quantity |-> MaxStock]>>)
    \/ \E id \in 1..MaxOrders : updateOrderStatus(id, "delivered", NoString, NoDate)
    \/ \E id \in 1..MaxOrders, r \in Reasons : cancelOrder("u1", id, r)
    \/ \E id \in 1..MaxOrders : updatePaymentStatus(id, "paid", NoString, NoString)

SpecFrame == Init /\ [][NextFrame]_vars

\* C10: the items, the totalAmount and the orderNumber of a stored order
\* are left as they are by every later step: status and payment updates,
\* cancellation, cart changes of the owner, and changes of the products'
\* selling price or stock.
C10_OrderSnapshotFrozen ==
    [][\A i \in 1..Len(orders) :
          /\ i <= Len(orders')
          /\ orders'[i].items = orders[i].items
          /\ orders'[i].totalAmount = orders[i].totalAmount
          /\ orders'[i].orderNumber = orders[i].orderNumber]_vars

\* a paid and cancelled order of two items whose first product has since
\* changed price and stock, while the owner's cart has lines again
C10_Witness ==
    /\ Len(orders) >= 1
    /\ Len(orders[1].items) = 2
    /\ orders[1].orderStatus = "cancelled"
    /\ orders[1].paymentStatus = "paid"
    /\ products[orders[1].items[1].product].sellingPrice # orders[1].items[1].unitPrice
    /\ products[orders[1].items[1].product].stock < MaxStock
    /\ carts[orders[1].user].items # <<>>

(***************************************************************************)
(* One user's cart requests from two tabs, interleaved                     *)
(***************************************************************************)
TabOps == {"addtoCart", "updateCart"}

NextTabs ==
    \/ \E t \in Tabs, op \in TabOps, p \in ProductIds, q \in 0..MaxQty :
          tabLoad(t, "u1", op, p, q, 2)
    \/ \E t \in Tabs : tabSave(t)

SpecTabs == Init /\ [][NextTabs]_vars

\* C13: once the overlapping cart requests of a user have all saved, the
\* stored cart has totalItems = the sum of its lines' quantities and
\* totalPrice = the sum of quantity x priceAtAddTime over the stored lines.
C13_TotalsMatchAfterOverlap ==
    (\A t \in Tabs : tabs[t].stage = "idle") =>
        \A u \in Users : carts[u].exists => TotalsMatch(carts[u])

(***************************************************************************)
(* The cart requests of one user, served one at a time                     *)
(***************************************************************************)
\* priceAtAddTime of a request: negative, zero, and two valid prices
CartPrices == {-1, 0, 1, 2}

NextCart ==
    \/ \E u \in Shoppers, p \in ProductIds \cup {NoProduct},
          q \in Quantities, pr \in CartPrices : addtoCart(u, p, q, pr)
    \/ \E u \in Shoppers, p \in ProductIds, q \in Quantities : updateCart(u, p, q)
    \/ \E u \in Shoppers, p \in ProductIds : removeFromCart(u, p)
    \/ \E u \in Shoppers : clearCart(u)

SpecCart == Init /\ [][NextCart]_vars

\* C14: an accepted addtoCart for a product that has a line adds the
\* requested quantity to that line and keeps its priceAtAddTime, whatever
\* price the request carries; for a product without a line it appends one
\* line; without a cart it creates the cart with that one line.  Every
\* other line and every other cart is unchanged.
C14_AddMergesOrAppends ==
    [][(res'.op = "addtoCart" /\ res'.code = 200) =>
          \A u \in Shoppers, p \in ProductIds, q \in Quantities, pr \in CartPrices :
             addtoCart(u, p, q, pr) =>
                LET old == carts[u].items
                    new == carts'[u].items
                    idx == FindIndex(old, p)
                IN  /\ \A v \in Users \ {u} : carts'[v] = carts[v]
                    /\ carts'[u].exists
                    /\ IF carts[u].exists /\ idx # 0
                       THEN /\ Len(new) = Len(old)
                            /\ new[idx].quantity = old[idx].quantity + q
                            /\ new[idx].priceAtAddTime = old[idx].priceAtAddTime
                            /\ new[idx].product = p
                            /\ \A i \in 1..Len(old) : i # idx => new[i] = old[i]
                       ELSE /\ Len(new) = Len(old) + 1
                            /\ new[Len(new)] = [product |-> p, quantity |-> q,
                                                priceAtAddTime |-> pr]
                            /\ \A i \in 1..Len(old) : new[i] = old[i]]_vars

\* an addtoCart was accepted for a cart that holds a line of MaxQty units
\* at price 1 followed by a line at price 2
C14_Witness ==
    /\ res.op = "addtoCart" /\ res.code = 200
    /\ \E u \in Shoppers :
          /\ Len(carts[u].items) = 2
          /\ carts[u].items[1].quantity = MaxQty
          /\ carts[u].items[1].priceAtAddTime = 1
          /\ carts[u].items[2].priceAtAddTime = 2

\* C15: addtoCart with quantity < 1 or priceAtAddTime < 0 answers 400 and
\* leaves the stored carts unchanged, and is accepted otherwise (price 0
\* included); every line of every stored cart has quantity >= 1 and
\* priceAtAddTime >= 0.
C15_AddRejectsBadInput ==
    [][res'.op = "addtoCart" =>
          /\ \A u \in Shoppers, p \in ProductIds, q \in Quantities, pr \in CartPrices :
                addtoCart(u, p, q, pr) =>
                   IF q < 1 \/ pr < 0
                   THEN res'.code = 400 /\ carts' = carts
                   ELSE res'.code = 200
          /\ \A u \in Users : CartValid(carts'[u])]_vars

\* C16: updateCart answers 400 for quantity < 0 and 404 when the user has
\* no cart or the cart has no line for the product, and changes nothing
\* then; with quantity 0 it removes exactly that line; with quantity >= 1
\* it sets that line's quantity and changes no other line and no price.
C16_UpdateCartContract ==
    [][res'.op = "updateCart" =>
          \A u \in Shoppers, p \in ProductIds, q \in Quantities :
             updateCart(u, p, q) =>
                LET old == carts[u].items
                    new == carts'[u].items
                    idx == FindIndex(old, p)
                IN  IF q < 0
                    THEN res'.code = 400 /\ carts' = carts
                    ELSE IF ~carts[u].exists \/ idx = 0
                    THEN res'.code = 404 /\ carts' = carts
                    ELSE /\ res'.code = 200
                         /\ \A v \in Users \ {u} : carts'[v] = carts[v]
                         /\ IF q = 0
                            THEN /\ Len(new) = Len(old) - 1
                                 /\ \A i \in 1..Len(new) :
                                       new[i] = IF i < idx THEN old[i] ELSE old[i + 1]
                            ELSE /\ Len(new) = Len(old)
                                 /\ new[idx] = [old[idx] EXCEPT !.quantity = q]
                                 /\ \A i \in 1..Len(old) :
                                       i # idx => new[i] = old[i]]_vars

\* an updateCart with quantity 0 has removed the last line of a cart
C16_Witness ==
    /\ res.op = "updateCart" /\ res.code = 200
    /\ \E u \in Shoppers :
          /\ carts[u].exists /\ carts[u].items = <<>>
          /\ carts[u].totalItems = 0 /\ carts[u].totalPrice = 0

(***************************************************************************)
(* The payment status of a placed order                                    *)
(***************************************************************************)
PaymentInputs == PAYMENT_STATUS \cup {"lost"}
TransactionIds == {NoString, "txn-1"}

NextPayments ==
    \/ /\ Len(orders) < MaxOrders
       /\ createOrder("u1", FALSE, ExplicitItems, 5)
    \/ \E id \in OrderIds, st \in PaymentInputs, tx \in TransactionIds :
          updatePaymentStatus(id, st, tx, NoString)
    \/ Tick

SpecPayments == Init /\ [][NextPayments]_vars

\* C17: when paymentStatus becomes paid, paidAt is set, to the time of the
\* first payment; once set, paidAt never changes, whatever
\* updatePaymentStatus calls follow (paid -> refunded -> paid included);
\* and every enumerated payment status can be set from every other.
C17_PaidAtSetOnce ==
    [][/\ \A i \in 1..Len(orders) :
             /\ (orders[i].paymentStatus # "paid"
                   /\ orders'[i].paymentStatus = "paid") =>
                      /\ orders'[i].paidAt # NoDate
                      /\ orders[i].paidAt = NoDate => orders'[i].paidAt = now
             /\ orders[i].paidAt # NoDate =>
                   orders'[i].paidAt = orders[i].paidAt
       /\ res'.op = "updatePaymentStatus" =>
             \A id \in 1..Len(orders), st \in PAYMENT_STATUS,
                tx \in TransactionIds :
                updatePaymentStatus(id, st, tx, NoString) =>
                   /\ res'.code = 200
                   /\ orders'[id].paymentStatus = st]_vars

\* an updatePaymentStatus at a later time has just left an order paid that
\* was first paid earlier: paidAt is still the time of the first payment
C17_Witness ==
    /\ res.op = "updatePaymentStatus" /\ res.code = 200
    /\ Len(orders) = 1
    /\ orders[1].paymentStatus = "paid"
    /\ orders[1].paidAt # NoDate
    /\ orders[1].paidAt < now

(***************************************************************************)
(* Order numbers: placements that read the same millisecond                *)
(***************************************************************************)
\* two createOrder requests that are served with no tick between them read
\* the same Date.now(); whichever insert comes second meets the unique
\* index
NextPlace ==
    \/ createProduct("p1", MaxStock, 1, FirstDraw("p1"))
    \/ \E u \in Users : addtoCart(u, "p1", 1, 2)
    \/ /\ Len(orders) <= MaxOrders
       /\ \E u \in Users, a \in TotalAmounts : createOrder(u, TRUE, <<>>, a)
    \/ /\ Len(orders) <= MaxOrders
       /\ \E u \in Users, b \in BodyItemLists, a \in TotalAmounts :
             createOrder(u, FALSE, b, a)
    \/ Tick

SpecPlace == Init /\ [][NextPlace]_vars

\* C18: no two stored orders share an orderNumber, and a createOrder whose
\* generated number is already taken does not fail for that: the number is
\* regenerated, so every createOrder with valid items and amount answers
\* 201 and stores its order.
C18_CollisionRetried ==
    [][res'.op = "createOrder" =>
          /\ \A i, j \in 1..Len(orders') :
                i # j => orders'[i].orderNumber # orders'[j].orderNumber
          /\ \A u \in Users, b \in BodyItemLists, a \in TotalAmounts :
                (createOrder(u, FALSE, b, a)
                   /\ b # <<>>
                   /\ OrderValid(NewOrder(u, now, BodyOrderItems(b), a))) =>
                      /\ res'.code = 201
                      /\ OrderPersisted
          /\ \A u \in Users, a \in TotalAmounts :
                (createOrder(u, TRUE, <<>>, a)
                   /\ carts[u].items # <<>>
                   /\ Populated(carts[u].items)
                   /\ a >= 0) =>
                      /\ res'.code = 201
                      /\ OrderPersisted]_vars

(***************************************************************************)
(* SKU assignment: product creations that overlap                          *)
(***************************************************************************)
NextSku ==
    \/ \E p \in ProductIds, st \in {-1, MaxStock} : saveBegin(p, st, 1)
    \/ \E p \in ProductIds, c \in SkuCandidates : skuLoop(p, c)
    \/ \E p \in ProductIds : saveInsert(p)
    \/ \E p \in ProductIds : softDelete(p)

SpecSku == Init /\ [][NextSku]_vars

\* C19: the SKU loop of a product save ends.  A turn whose candidate is
\* free assigns it (upper-cased) and the save goes on to the insert; the
\* loop is still turning only while fewer than MaxAttempts candidates have
\* collided, after which the save has failed instead.
C19_SkuLoopBounded ==
    [][\A p \in ProductIds :
          (saving[p].stage = "sku" /\ saving'[p] # saving[p]) =>
             IF saving'[p].stage = "sku"
             THEN saving'[p].attempts < MaxAttempts
             ELSE /\ saving'[p].stage = "insert"
                  /\ ~SkuFound(saving'[p].newSKU)
                  /\ saving'[p].doc.sku = toUpperCase(saving'[p].newSKU)]_vars

\* C20: no two stored products hold the same SKU, also when two creations
\* have both looked up the same candidate and found it free before either
\* was inserted.
C20_SkuUnique ==
    \A p, q \in ProductIds :
        (p # q /\ products[p].exists /\ products[q].exists) =>
            products[p].sku # products[q].sku

\* two creations passed the SKU loop with the same candidate; one is stored
\* with it and the other has just been refused by the index
C20_Witness ==
    /\ res.op = "createProduct" /\ res.code = 500
    /\ \A p \in ProductIds : ~products[p].isDeleted
    /\ \E p, q \in ProductIds :
          /\ products[p].exists /\ products[p].sku \in SkuCandidates
          /\ ~products[q].exists
          /\ saving[q].stage = "idle"

(***************************************************************************)
(* Order analytics over a window of days                                   *)
(***************************************************************************)
\* req.query.days, in the unit of the clock
WindowDays == 0..MaxClock

SummaryFields ==
    {"totalOrders", "totalRevenue", "avgOrderValue", "cancelledOrders",
     "deliveredOrders"}

NextAnalytics ==
    \/ /\ Len(orders) <= MaxOrders
       /\ createOrder("u1", FALSE, ExplicitItems, 5)
    \/ \E id \in OrderIds, st \in {"cancelled", "delivered"} :
          updateOrderStatus(id, st, NoString, NoDate)
    \/ \E days \in WindowDays : getOrderAnalytics(days)
    \/ Tick

SpecAnalytics == Init /\ [][NextAnalytics]_vars

\* C22: getOrderAnalytics over a window in which no order was created
\* answers with a summary that has the fields totalOrders, totalRevenue,
\* avgOrderValue, cancelledOrders and deliveredOrders, each 0, and changes
\* no stored order.
C22_EmptyWindowZeros ==
    [][res'.op = "getOrderAnalytics" =>
          \A days \in WindowDays :
             (getOrderAnalytics(days) /\ Matched(days) = {}) =>
                /\ res'.code = 200
                /\ DOMAIN res'.summary = SummaryFields
                /\ \A f \in SummaryFields : res'.summary[f] = 0
                /\ orders' = orders]_vars

(***************************************************************************)
(* Two users: each one's cart and orders against the other's requests      *)
(***************************************************************************)
NextOwners ==
    \/ createProduct("p1", MaxStock, 1, FirstDraw("p1"))
    \/ \E u \in Users : addtoCart(u, "p1", 1, 2)
    \/ \E u \in Users : updateCart(u, "p1", MaxQty)
    \/ \E u \in Users : removeFromCart(u, "p1")
    \/ \E u \in Users : clearCart(u)
    \/ /\ Len(orders) < MaxOrders
       /\ \E u \in Users : createOrder(u, TRUE, <<>>, 5)
    \/ \E id \in 1..MaxOrders, st \in {"shipped", "delivered"} :
          updateOrderStatus(id, st, NoString, NoDate)
    \/ \E u \in Users, id \in 1..MaxOrders, r \in Reasons : cancelOrder(u, id, r)
    \/ \E u \in Users, id \in 1..MaxOrders : getOrderById(u, id)

SpecOwners == Init /\ [][NextOwners]_vars

\* the step is a cart request or a checkout of user u
CartRequestOf(u) ==
    \/ addtoCart(u, "p1", 1, 2)
    \/ updateCart(u, "p1", MaxQty)
    \/ removeFromCart(u, "p1")
    \/ clearCart(u)
    \/ createOrder(u, TRUE, <<>>, 5)

\* C25: cancelOrder and getOrderById by a user who does not own the order
\* answer 404 and leave the orders unchanged, whatever the order's status;
\* and a cart request or checkout of one user leaves the cart of every
\* other user unchanged.
C25_OwnerScoped ==
    [][/\ res'.op = "cancelOrder" =>
             \A u \in Users, id \in 1..Len(orders), r \in Reasons :
                (cancelOrder(u, id, r) /\ orders[id].user # u) =>
                   res'.code = 404 /\ orders' = orders
       /\ res'.op = "getOrderById" =>
             \A u \in Users, id \in 1..Len(orders) :
                (getOrderById(u, id) /\ orders[id].user # u) =>
                   res'.code = 404 /\ orders' = orders
       /\ res'.op \in {"addtoCart", "updateCart", "removeFromCart", "clearCart",
                        "createOrder"} =>
             \A u \in Users :
                CartRequestOf(u) =>
                   \A v \in Users \ {u} : carts'[v] = carts[v]]_vars

\* the order of a checkout is still open, its owner's cart is emptied, the
\* other user has a cart with lines, and a cancelOrder for the order has
\* just been answered 404
C25_Witness ==
    /\ res.op = "cancelOrder" /\ res.code = 404
    /\ Len(orders) = 1
    /\ orders[1].orderStatus = "processing"
    /\ carts[orders[1].user].items = <<>>
    /\ \E v \in Users \ {orders[1].user} : carts[v].items # <<>>

(***************************************************************************)
(* The administrative updates of a placed order                            *)
(***************************************************************************)
TrackingNumbers == {NoString, "trk-1", "trk-2"}
DeliveryDates == {NoDate, MaxClock + 1}
Gateways == {NoString, "stripe"}
AdminTransactionIds == {NoString, "txn-1", "txn-2"}

NextAdmin ==
    \/ /\ Len(orders) < MaxOrders
       /\ createOrder("u1", FALSE, ExplicitItems, 5)
    \/ \E id \in OrderIds, st \in {"shipped", "delivered", "lost"},
          tn \in TrackingNumbers, ed \in DeliveryDates :
          updateOrderStatus(id, st, tn, ed)
    \/ \E id \in OrderIds, st \in {"paid", "refunded", "lost"},
          tx \in AdminTransactionIds, gw \in Gateways :
          updatePaymentStatus(id, st, tx, gw)

SpecAdmin == Init /\ [][NextAdmin]_vars

\* C26: updateOrderStatus and updatePaymentStatus answer 400 for a status
\* outside the enumerated set and 404 for an order id that is not stored,
\* changing no order; otherwise they answer 200, set the status, store
\* trackingNumber, estimatedDelivery, transactionId and paymentGateway where
\* the request supplies them and leave them as they were where it does not.
C26_AdminUpdates ==
    [][/\ res'.op = "updateOrderStatus" =>
             \A id \in OrderIds, st \in {"shipped", "delivered", "lost"},
                tn \in TrackingNumbers, ed \in DeliveryDates :
                updateOrderStatus(id, st, tn, ed) =>
                   IF st \notin ORDER_STATUS
                   THEN res'.code = 400 /\ orders' = orders
                   ELSE IF id \notin 1..Len(orders)
                   THEN res'.code = 404 /\ orders' = orders
                   ELSE /\ res'.code = 200
                        /\ orders'[id].orderStatus = st
                        /\ orders'[id].trackingNumber =
                              IF tn # NoString THEN tn
                              ELSE orders[id].trackingNumber
                        /\ orders'[id].estimatedDelivery =
                              IF ed # NoDate THEN ed
                              ELSE orders[id].estimatedDelivery
                        /\ orders'[id].transactionId = orders[id].transactionId
                        /\ orders'[id].paymentGateway = orders[id].paymentGateway
                        /\ orders'[id].paymentStatus = orders[id].paymentStatus
       /\ res'.op = "updatePaymentStatus" =>
             \A id \in OrderIds, st \in {"paid", "refunded", "lost"},
                tx \in AdminTransactionIds, gw \in Gateways :
                updatePaymentStatus(id, st, tx, gw) =>
                   IF st \notin PAYMENT_STATUS
                   THEN res'.code = 400 /\ orders' = orders
                   ELSE IF id \notin 1..Len(orders)
                   THEN res'.code = 404 /\ orders' = orders
                   ELSE /\ res'.code = 200
                        /\ orders'[id].paymentStatus = st
                        /\ orders'[id].transactionId =
                              IF tx # NoString THEN tx
                              ELSE orders[id].transactionId
                        /\ orders'[id].paymentGateway =
                              IF gw # NoString THEN gw
                              ELSE orders[id].paymentGateway
                        /\ orders'[id].trackingNumber = orders[id].trackingNumber
                        /\ orders'[id].estimatedDelivery
                              = orders[id].estimatedDelivery
                        /\ orders'[id].orderStatus = orders[id].orderStatus]_vars

\* a refund has just been recorded for a shipped order that carries a
\* tracking number and a transaction id from earlier updates, and no
\* gateway and no delivery estimate
C26_Witness ==
    /\ res.op = "updatePaymentStatus" /\ res.code = 200
    /\ Len(orders) = 1
    /\ orders[1].orderStatus = "shipped"
    /\ orders[1].paymentStatus = "refunded"
    /\ orders[1].trackingNumber = "trk-2"
    /\ orders[1].transactionId = "txn-1"
    /\ orders[1].paymentGateway = NoString
    /\ orders[1].estimatedDelivery = NoDate
    /\ orders[1].paidAt # NoDate

(***************************************************************************)
(* Checkouts of one user from two tabs, step by step                       *)
(***************************************************************************)
NextCheckout ==
    \/ createProduct("p1", MaxStock, 1, FirstDraw("p1"))
    \/ addtoCart("u1", "p1", 1, 2)
    \/ \E t \in Tabs : orderLoad(t, "u1", 5)
    \/ \E t \in Tabs : orderPersist(t)
    \/ \E t \in Tabs, ok \in BOOLEAN : orderClear(t, ok)
    \/ Tick

SpecCheckout == Init /\ [][NextCheckout]_vars

\* C28: a createOrder request that ends in an error (4xx or 5xx) has
\* stored no order, and its last step leaves the orders and the carts as
\* they were.
C28_FailureStoresNothing ==
    [][\A t \in Tabs :
          (tabs[t].op = "createOrder" /\ tabs[t].stage # "idle"
             /\ tabs'[t].stage = "idle"
             /\ res'.op = "createOrder" /\ res'.code >= 400) =>
                /\ tabs[t].order = 0
                /\ orders' = orders
                /\ carts' = carts]_vars

\* C29: of the createOrder requests of one user that have read the same
\* cart lines, one at most stores an order: a request that read the cart
\* before another request of the user stored its order is refused and
\* stores nothing.
C29_OneOrderPerCart ==
    [][\A t \in Tabs :
          (tabs[t].op = "createOrder" /\ tabs[t].stage = "loaded"
             /\ tabs[t].stale /\ tabs'[t] # tabs[t]) =>
                /\ orders' = orders
                /\ tabs'[t].stage = "idle"
                /\ res'.op = "createOrder" /\ res'.code >= 400]_vars

====
